---------------------------- MODULE Spec2Model ----------------------------
(***************************************************************************)
(* Model of the ledger block decoder (src/src/main.rs): one run of main    *)
(* copies the blocks of a source store into a target store, resuming after *)
(* the target's last verified block and reading the source in windows.     *)
(*                                                                         *)
(* A store is a function from the idx values it holds to its rows.  The    *)
(* source is the ledger's block log: blocks are appended unverified and    *)
(* are marked verified later, in idx order, between runs.  One run is a    *)
(* sequence of steps (resume decision, one query per window, one row at a  *)
(* time), so that the states in the middle of a window and after an        *)
(* aborted run are states of the model.                                    *)
(*                                                                         *)
(* The columns hash, parent_hash, memo, created_at_time and timestamp are  *)
(* copied from the block without any decision depending on them and are    *)
(* left out of the rows.                                                   *)
(***************************************************************************)
EXTENDS Integers, Sequences, FiniteSets

\* ---------------------------------------------------------------- bounds
\* Largest number of blocks the source log grows to.
MaxLen == 5
\* The window length of main's loop (1000 in the source), scaled down so
\* that MaxLen blocks span three windows.
WindowSize == 2
\* Largest number of blocks of the source whose bytes do not decode.
MaxBad == 1

\* ------------------------------------------------------- Option<T> values
None == <<>>
Some(x) == <<x>>

\* ------------------------------------------------------------- operations
Accounts == {"A", "B"}
E8s == {0, 5}

BurnOps == [kind : {"Burn"}, from : Accounts, amount : E8s]
MintOps == [kind : {"Mint"}, to : Accounts, amount : E8s]
TransferOps == [kind : {"Transfer"}, from : Accounts, to : Accounts,
                amount : E8s, fee : E8s]
Operation == BurnOps \cup MintOps \cup TransferOps

\* The operations of the blocks the growing log of Spec appends.
LogOps == {[kind |-> "Transfer", from |-> "A", to |-> "B", amount |-> 5, fee |-> 0]}

\* fn from(op)
from(op) ==
    CASE op.kind = "Burn" -> Some(op.from)
      [] op.kind = "Mint" -> None
      [] op.kind = "Transfer" -> Some(op.from)

\* fn to(op)
to(op) ==
    CASE op.kind = "Burn" -> None
      [] op.kind = "Mint" -> Some(op.to)
      [] op.kind = "Transfer" -> Some(op.to)

\* fn amount(op)
amount(op) ==
    CASE op.kind = "Burn" -> op.amount
      [] op.kind = "Mint" -> op.amount
      [] op.kind = "Transfer" -> op.amount

\* fee with the unused field written as zero instead of left absent.
feeOrZero(op) ==
    CASE op.kind = "Burn" -> Some(0)
      [] op.kind = "Mint" -> Some(0)
      [] op.kind = "Transfer" -> Some(op.fee)

\* fn fee(op)
fee(op) ==
    CASE op.kind = "Burn" -> None
      [] op.kind = "Mint" -> None
      [] op.kind = "Transfer" -> Some(op.fee)

\* ------------------------------------------------------------------ state
VARIABLES
    source,             \* source store: idx -> [verified, ok, op]
    target,             \* target store: idx -> flattened row
    pc,                 \* position of main: "idle", "loop", "rows"
    next_target_block,  \* main's local, None while no run is in progress
    last_source_block,  \* main's local, None while no run is in progress
    start,              \* the loop variable of the window loop
    blocks,             \* rows of the current window not yet iterated
    outcome,            \* how the last run ended
    written,            \* idx values inserted by the current or last run
    windows,            \* window starts queried by the current or last run
    targetBefore,       \* the target when the current or last run started
    srcChanged,         \* the source changed since the last run started
    grown,              \* the source has only grown since the beginning
    rerun,              \* the current or last run followed a successful run
                        \* on an unchanged source
    retry               \* the current or last run followed, on an unchanged
                        \* source, a run that aborted after inserting rows
                        \* of the window it aborted in

vars == <<source, target, pc, next_target_block, last_source_block, start,
          blocks, outcome, written, windows, targetBefore, srcChanged, grown,
          rerun, retry>>

locals == <<next_target_block, last_source_block, start, blocks>>

SuccessOutcomes == {"synced", "empty", "done"}
AbortOutcomes == {"decode_abort", "write_abort"}

\* ---------------------------------------------------------------- helpers
Max(S) == CHOOSE x \in S : \A y \in S : y <= x
Min(S) == CHOOSE x \in S : \A y \in S : x <= y

EmptyTable == [i \in {} |-> 0]

\* last_block without its WHERE clause: SELECT MAX(idx) FROM blocks
LastBlockAnyRow(tbl) ==
    IF DOMAIN tbl = {} THEN None ELSE Some(Max(DOMAIN tbl))

\* fn last_block(conn): SELECT MAX(idx) FROM blocks WHERE verified = 1
LastBlock(tbl) ==
    LET V == {i \in DOMAIN tbl : tbl[i].verified}
    IN  IF V = {} THEN None ELSE Some(Max(V))

\* The resume point without the step past the last block: map_or(0, |x| x)
NextTargetBlockNoStep(tbl) ==
    LET V == {i \in DOMAIN tbl : tbl[i].verified}
    IN  IF V = {} THEN 0 ELSE Max(V)

\* A run that does not resume: it starts from idx 0 whatever the target
\* holds.
NextTargetBlockFromZero(tbl) == 0

\* last_block(&target_conn).map_or(0, |x| x + 1)
NextTargetBlock(tbl) ==
    IF LastBlock(tbl) = None THEN 0 ELSE LastBlock(tbl)[1] + 1

RECURSIVE Ascending(_)
Ascending(S) ==
    IF S = {} THEN <<>> ELSE <<Min(S)>> \o Ascending(S \ {Min(S)})

RECURSIVE Descending(_)
Descending(S) ==
    IF S = {} THEN <<>> ELSE <<Max(S)>> \o Descending(S \ {Max(S)})

\* The window query with the rows coming back in descending idx order.
QueryWindowDescending(tbl, lo, hi) ==
    Descending({i \in DOMAIN tbl : i >= lo /\ i < hi})

\* SELECT ... FROM blocks WHERE idx >= ? AND idx < ?  (the rows of a log
\* keyed by idx come back in idx order)
QueryWindow(tbl, lo, hi) ==
    Ascending({i \in DOMAIN tbl : i >= lo /\ i < hi})

\* The row main inserts for a decoded block.
TargetRow(rec) ==
    [from_account |-> from(rec.op),
     to_account   |-> to(rec.op),
     amount       |-> amount(rec.op),
     fee          |-> fee(rec.op),
     verified     |-> rec.verified]

\* INSERT INTO blocks ... : a new row under the primary key idx
InsertInto(tbl, idx, row) ==
    [i \in DOMAIN tbl \cup {idx} |-> IF i = idx THEN row ELSE tbl[i]]

BadCount(tbl) == Cardinality({i \in DOMAIN tbl : ~tbl[i].ok})

\* ------------------------------------------------------------------- Init
Init ==
    /\ source = EmptyTable
    /\ target = EmptyTable
    /\ pc = "idle"
    /\ next_target_block = None
    /\ last_source_block = None
    /\ start = None
    /\ blocks = <<>>
    /\ outcome = "none"
    /\ written = <<>>
    /\ windows = <<>>
    /\ targetBefore = EmptyTable
    /\ srcChanged = FALSE
    /\ grown = TRUE
    /\ rerun = FALSE
    /\ retry = FALSE

\* ------------------------------------------------- the ledger (upstream)
\* The ledger appends a block, not yet verified, at the next idx.
AppendBlock(ops) ==
    /\ pc = "idle"
    /\ Cardinality(DOMAIN source) < MaxLen
    /\ \E op \in ops, ok \in BOOLEAN :
          /\ ok \/ BadCount(source) < MaxBad
          /\ source' = InsertInto(source, Cardinality(DOMAIN source),
                                  [verified |-> FALSE, ok |-> ok, op |-> op])
    /\ srcChanged' = TRUE
    /\ UNCHANGED <<target, pc, locals, outcome, written, windows,
                   targetBefore, grown, rerun, retry>>

\* The ledger marks its lowest unverified block verified.
VerifyBlock ==
    /\ pc = "idle"
    /\ \E i \in DOMAIN source :
          /\ ~source[i].verified
          /\ \A j \in DOMAIN source : j < i => source[j].verified
          /\ source' = [source EXCEPT ![i].verified = TRUE]
    /\ srcChanged' = TRUE
    /\ UNCHANGED <<target, pc, locals, outcome, written, windows,
                   targetBefore, grown, rerun, retry>>

\* The operator points the next runs at a fresh source store (the source
\* location is an argument of the program, Args lines 12-13).
ResetSource ==
    /\ pc = "idle"
    /\ source # EmptyTable
    /\ grown
    /\ source' = EmptyTable
    /\ srcChanged' = TRUE
    /\ grown' = FALSE
    /\ UNCHANGED <<target, pc, locals, outcome, written, windows,
                   targetBefore, rerun, retry>>

\* ------------------------------------------------------------------- main
\* What every start of a run records.
RunStarts ==
    /\ pc = "idle"
    /\ written' = <<>>
    /\ windows' = <<>>
    /\ targetBefore' = target
    /\ srcChanged' = FALSE
    /\ rerun' = (outcome \in SuccessOutcomes /\ ~srcChanged)
    /\ retry' = /\ outcome \in AbortOutcomes
                 /\ ~srcChanged
                 /\ windows # <<>>
                 /\ \E k \in 1..Len(written) :
                       written[k] >= windows[Len(windows)]

\* What every end of a run does: the process exits, its locals are gone.
RunEnds(how) ==
    /\ pc' = "idle"
    /\ outcome' = how
    /\ next_target_block' = None
    /\ last_source_block' = None
    /\ start' = None
    /\ blocks' = <<>>

\* The 'All blocks decoded' arm with the guard last_source_block <=
\* next_target_block.
RunFullySyncedAtEqual ==
    /\ RunStarts
    /\ LastBlock(source) # None
    /\ LastBlock(source)[1] <= NextTargetBlock(target)
    /\ RunEnds("synced")
    /\ UNCHANGED <<source, target, grown>>

\* main, lines 93-101: the source's last verified block lies below the
\* resume point: "All blocks decoded", return.
RunFullySynced ==
    /\ RunStarts
    /\ LastBlock(source) # None
    /\ LastBlock(source)[1] < NextTargetBlock(target)
    /\ RunEnds("synced")
    /\ UNCHANGED <<source, target, grown>>

\* main, lines 93-97 and 103-106: the source has no verified block:
\* "Source table ... is empty", return.
RunSourceEmpty ==
    /\ RunStarts
    /\ LastBlock(source) = None
    /\ RunEnds("empty")
    /\ UNCHANGED <<source, target, grown>>

\* main, lines 93-97, 102 and 109: the loop over the windows begins.
RunBegin ==
    /\ RunStarts
    /\ LastBlock(source) # None
    /\ ~(LastBlock(source)[1] < NextTargetBlock(target))
    /\ next_target_block' = Some(NextTargetBlock(target))
    /\ last_source_block' = LastBlock(source)
    /\ start' = Some(NextTargetBlock(target))
    /\ pc' = "loop"
    /\ UNCHANGED <<source, target, blocks, outcome, grown>>

\* main, lines 109-118: the next window [start, start + 1000) is queried.
OpenWindow ==
    /\ pc = "loop"
    /\ start[1] <= last_source_block[1]
    /\ blocks' = QueryWindow(source, start[1], start[1] + WindowSize)
    /\ windows' = Append(windows, start[1])
    /\ pc' = "rows"
    /\ UNCHANGED <<source, target, next_target_block, last_source_block,
                   start, outcome, written, targetBefore, srcChanged, grown, rerun, retry>>

\* A loop that skips a row whose bytes do not decode and goes on.
DecodeSkip ==
    /\ pc = "rows"
    /\ blocks # <<>>
    /\ ~source[Head(blocks)].ok
    /\ blocks' = Tail(blocks)
    /\ UNCHANGED <<source, target, pc, next_target_block, last_source_block,
                   start, outcome, written, windows, targetBefore,
                   srcChanged, grown, rerun, retry>>

\* main, lines 119-120 with row_to_decoded_block, line 54: the bytes of the
\* next row do not decode, unwrap panics.
DecodeFail ==
    /\ pc = "rows"
    /\ blocks # <<>>
    /\ ~source[Head(blocks)].ok
    /\ RunEnds("decode_abort")
    /\ UNCHANGED <<source, target, written, windows, targetBefore,
                   srcChanged, grown, rerun, retry>>

\* An INSERT OR REPLACE in place of the INSERT: the row already in the
\* target is overwritten.
InsertOrReplace ==
    /\ pc = "rows"
    /\ blocks # <<>>
    /\ source[Head(blocks)].ok
    /\ Head(blocks) \in DOMAIN target
    /\ target' = [target EXCEPT ![Head(blocks)] = TargetRow(source[Head(blocks)])]
    /\ written' = Append(written, Head(blocks))
    /\ blocks' = Tail(blocks)
    /\ UNCHANGED <<source, pc, next_target_block, last_source_block, start,
                   outcome, windows, targetBefore, srcChanged, grown, rerun, retry>>

\* An INSERT OR IGNORE in place of the INSERT: the colliding row is skipped
\* and the loop goes on.
InsertSkip ==
    /\ pc = "rows"
    /\ blocks # <<>>
    /\ source[Head(blocks)].ok
    /\ Head(blocks) \in DOMAIN target
    /\ blocks' = Tail(blocks)
    /\ UNCHANGED <<source, target, pc, next_target_block, last_source_block,
                   start, outcome, written, windows, targetBefore,
                   srcChanged, grown, rerun, retry>>

\* main, lines 119-133: the next row decodes, the insert violates the
\* primary key, expect panics.
InsertFail ==
    /\ pc = "rows"
    /\ blocks # <<>>
    /\ source[Head(blocks)].ok
    /\ Head(blocks) \in DOMAIN target
    /\ RunEnds("write_abort")
    /\ UNCHANGED <<source, target, written, windows, targetBefore,
                   srcChanged, grown, rerun, retry>>

\* main, lines 119-133: the next row decodes and is inserted.
InsertRow ==
    /\ pc = "rows"
    /\ blocks # <<>>
    /\ source[Head(blocks)].ok
    /\ Head(blocks) \notin DOMAIN target
    /\ target' = InsertInto(target, Head(blocks), TargetRow(source[Head(blocks)]))
    /\ written' = Append(written, Head(blocks))
    /\ blocks' = Tail(blocks)
    /\ UNCHANGED <<source, pc, next_target_block, last_source_block, start,
                   outcome, windows, targetBefore, srcChanged, grown, rerun, retry>>

\* main, lines 109 and 135: the window is exhausted, step_by advances.
CloseWindow ==
    /\ pc = "rows"
    /\ blocks = <<>>
    /\ start' = Some(start[1] + WindowSize)
    /\ pc' = "loop"
    /\ UNCHANGED <<source, target, next_target_block, last_source_block,
                   blocks, outcome, written, windows, targetBefore,
                   srcChanged, grown, rerun, retry>>

\* main, lines 109 and 137: the range is exhausted, the run ends.
RunDone ==
    /\ pc = "loop"
    /\ start[1] > last_source_block[1]
    /\ RunEnds("done")
    /\ UNCHANGED <<source, target, written, windows, targetBefore,
                   srcChanged, grown, rerun, retry>>

Next ==
    \/ AppendBlock(LogOps)
    \/ VerifyBlock
    \/ ResetSource
    \/ RunFullySynced
    \/ RunSourceEmpty
    \/ RunBegin
    \/ OpenWindow
    \/ DecodeFail
    \/ InsertFail
    \/ InsertRow
    \/ CloseWindow
    \/ RunDone

Spec == Init /\ [][Next]_vars

\* ------------------------------------------- the Field Extractor's inputs
\* Two-block logs, the first block verified and the second not, carrying
\* every pair of operations.
FieldLogs ==
    {s \in [0..1 -> [verified : BOOLEAN, ok : BOOLEAN, op : Operation]] :
        /\ s[0].verified
        /\ ~s[1].verified
        /\ BadCount(s) <= MaxBad}

InitFields ==
    /\ source \in FieldLogs
    /\ target = EmptyTable
    /\ pc = "idle"
    /\ next_target_block = None
    /\ last_source_block = None
    /\ start = None
    /\ blocks = <<>>
    /\ outcome = "none"
    /\ written = <<>>
    /\ windows = <<>>
    /\ targetBefore = EmptyTable
    /\ srcChanged = FALSE
    /\ grown = TRUE
    /\ rerun = FALSE
    /\ retry = FALSE

NextFields ==
    \/ VerifyBlock
    \/ RunFullySynced
    \/ RunBegin
    \/ OpenWindow
    \/ DecodeFail
    \/ InsertFail
    \/ InsertRow
    \/ CloseWindow
    \/ RunDone

SpecFields == InitFields /\ [][NextFields]_vars

\* ================================================================ claims
\* The claims speak about the stores in their own terms.
RowIdx(tbl) == DOMAIN tbl
VerifiedIdx(tbl) == {i \in DOMAIN tbl : tbl[i].verified}
Greatest(S) == IF S = {} THEN None ELSE Some(CHOOSE x \in S : \A y \in S : y <= x)
Inserted == {written[k] : k \in 1..Len(written)}
RunEnded == pc = "idle" /\ outcome # "none"
\* The source is the store the last run read.
SourceAsRead == ~srcChanged

\* C1 (as claimed): when a run ends successfully, the target's maximum idx
\* equals the source's maximum verified idx, and every idx from the previous
\* target maximum + 1 up to the new maximum is in the target.
C1_ResumeCorrectness ==
    (RunEnded /\ outcome \in SuccessOutcomes /\ SourceAsRead /\ grown) =>
        /\ Greatest(RowIdx(target)) = Greatest(VerifiedIdx(source))
        /\ \A i \in 0..MaxLen :
              ( /\ Greatest(RowIdx(target)) # None
                /\ i <= Greatest(RowIdx(target))[1]
                /\ \/ Greatest(RowIdx(targetBefore)) = None
                   \/ i > Greatest(RowIdx(targetBefore))[1] )
              => i \in RowIdx(target)

\* C2 (as claimed): every row of the target was copied from a source record
\* whose verified flag was true.
C2_OnlyVerifiedMigrated ==
    \A i \in RowIdx(target) : target[i].verified

\* C3 (as claimed): the target's maximum idx never exceeds the source's
\* maximum verified idx.
C3_TargetMaxBounded ==
    grown =>
        \A i \in RowIdx(target) :
            \E j \in VerifiedIdx(source) : i <= j

\* C4 (as claimed): the idx values of the target are a prefix of the
\* source's verified idx values in ascending order.
C4_GapFreePrefix ==
    grown =>
        /\ RowIdx(target) \subseteq VerifiedIdx(source)
        /\ \A i \in RowIdx(target) :
              \A j \in VerifiedIdx(source) : j < i => j \in RowIdx(target)

\* C6 (as claimed): while the source only grows, no run attempts to insert
\* an idx that the target already holds.
C6_NoDuplicateInsert ==
    grown => outcome # "write_abort"

\* C5 (as claimed): after a run that ended successfully, a second run
\* against the unchanged source inserts nothing, leaves the target as it
\* was and ends through the 'All blocks decoded' exit.
C5_IdempotentFullySynced ==
    (rerun /\ SourceAsRead) =>
        /\ Inserted = {}
        /\ target = targetBefore
        /\ RunEnded => outcome = "synced"

\* C5 (amended): after a run that ended successfully, a second run against
\* the unchanged source inserts nothing, leaves the target as it was, and
\* ends at once: through the 'All blocks decoded' exit when the source has a
\* verified block, through the 'source empty' exit when it has none.
C5_Idempotent ==
    (rerun /\ SourceAsRead) =>
        /\ Inserted = {}
        /\ target = targetBefore
        /\ RunEnded
        /\ VerifiedIdx(source) # {} => outcome = "synced"
        /\ VerifiedIdx(source) = {} => outcome = "empty"

\* A second run found everything synced, over a target that holds rows, one
\* of them copied from an unverified block.
C5_Witness ==
    /\ rerun /\ SourceAsRead /\ RunEnded
    /\ outcome = "synced"
    /\ \E i \in RowIdx(target) : ~target[i].verified

\* C7: when the source has no verified block, a run inserts no row into the
\* target, whatever the target holds, and ends through the 'source empty'
\* exit; it is never inside the window loop.
C7_EmptySource ==
    (VerifiedIdx(source) = {} /\ SourceAsRead) =>
        /\ pc = "idle"
        /\ RunEnded =>
              /\ outcome = "empty"
              /\ Inserted = {}
              /\ target = targetBefore

\* A run ended 'source empty' on a source that holds only unverified blocks,
\* over a target that holds rows.
C7_Witness ==
    /\ RunEnded /\ SourceAsRead
    /\ outcome = "empty"
    /\ RowIdx(source) # {}
    /\ VerifiedIdx(source) = {}
    /\ RowIdx(target) # {}

\* C8: every row of the target carries the (from, to, amount, fee) of its
\* block's operation: Burn -> (from, absent, amount, absent), Mint ->
\* (absent, to, amount, absent), Transfer -> (from, to, amount, fee); an
\* unused field is absent, never zero.
C8_FieldMapping ==
    \A i \in RowIdx(target) :
        LET op == source[i].op
            row == target[i]
        IN  /\ row.amount = op.amount
            /\ op.kind = "Burn" =>
                  /\ row.from_account = <<op.from>>
                  /\ row.to_account = <<>>
                  /\ row.fee = <<>>
            /\ op.kind = "Mint" =>
                  /\ row.from_account = <<>>
                  /\ row.to_account = <<op.to>>
                  /\ row.fee = <<>>
            /\ op.kind = "Transfer" =>
                  /\ row.from_account = <<op.from>>
                  /\ row.to_account = <<op.to>>
                  /\ row.fee = <<op.fee>>

\* The target holds the row of a Burn of amount zero and the row of a
\* Transfer with fee zero.
C8_Witness ==
    /\ \E i \in RowIdx(target) :
          source[i].op.kind = "Burn" /\ source[i].op.amount = 0
    /\ \E j \in RowIdx(target) :
          source[j].op.kind = "Transfer" /\ source[j].op.fee = 0

\* C9: a record that does not decode, inside a window the run has queried,
\* lies in the last window queried; the run has inserted neither it nor any
\* record after it, never completes that window, and ends abnormally.
C9_DecodeFailureAborts ==
    SourceAsRead =>
        \A k \in 1..Len(windows) :
            \A b \in RowIdx(source) :
                (windows[k] <= b /\ b < windows[k] + WindowSize /\ ~source[b].ok)
                => /\ k = Len(windows)
                   /\ \A w \in Inserted : w < b
                   /\ pc # "loop"
                   /\ RunEnded => outcome \in AbortOutcomes

\* A run aborted on a record that does not decode, after inserting a row of
\* the same window, while the source holds verified blocks of a later
\* window.
C9_Witness ==
    /\ RunEnded /\ SourceAsRead
    /\ outcome = "decode_abort"
    /\ \E b \in RowIdx(source) :
          /\ ~source[b].ok
          /\ b - 1 \in Inserted
          /\ windows # <<>>
          /\ windows[Len(windows)] < b
          /\ \E v \in VerifiedIdx(source) : v >= windows[Len(windows)] + WindowSize

\* C10: no step deletes a row of the target or changes one of its columns.
C10_AppendOnly ==
    [][\A i \in RowIdx(target) :
           i \in RowIdx(target') /\ target'[i] = target[i]]_vars

\* A run aborted after inserting rows into a target that already held rows.
C10_Witness ==
    /\ RunEnded
    /\ outcome \in AbortOutcomes
    /\ Inserted # {}
    /\ RowIdx(targetBefore) # {}

\* The idx values a window starting at s asks for.
WindowRange(s) == s..(s + WindowSize - 1)

\* C11: a record that decodes, inside a window the run has queried, whose
\* idx the target already held lies in the last window queried; its row in
\* the target is as it was, the run has inserted nothing at or after it,
\* never completes that window and ends abnormally, at that record when no
\* record of the window fails to decode.
C11_WriteFailureFatal ==
    SourceAsRead =>
        \A k \in 1..Len(windows) :
            \A b \in RowIdx(source) \cap WindowRange(windows[k]) :
                (source[b].ok /\ b \in RowIdx(targetBefore))
                => /\ k = Len(windows)
                   /\ target[b] = targetBefore[b]
                   /\ \A w \in Inserted : w < b
                   /\ pc # "loop"
                   /\ RunEnded => outcome \in AbortOutcomes
                   /\ ( /\ RunEnded
                        /\ \A c \in RowIdx(source) \cap WindowRange(windows[k]) :
                              source[c].ok )
                      => outcome = "write_abort"

\* A run aborted on a duplicate idx while the source holds verified blocks
\* after it that the target does not hold.
C11_Witness ==
    /\ RunEnded /\ SourceAsRead
    /\ outcome = "write_abort"
    /\ \E b \in RowIdx(targetBefore) \cap RowIdx(source) :
          /\ windows # <<>>
          /\ b \in WindowRange(windows[Len(windows)])
          /\ \E v \in VerifiedIdx(source) : v > b /\ v \notin RowIdx(target)

\* C12 (as claimed): the windows a run queries start at next_start, follow
\* one another without gap or overlap in ascending order, return no source
\* row outside [next_start, source max verified idx], and cover that range
\* once the loop is exhausted.
C12_WindowPartition ==
    pc # "idle" =>
        /\ \A k \in 1..Len(windows) :
              windows[k] = next_target_block[1] + (k - 1) * WindowSize
        /\ \A k \in 1..Len(windows) :
              \A i \in RowIdx(source) \cap WindowRange(windows[k]) :
                  next_target_block[1] <= i /\ i <= last_source_block[1]
        /\ (pc = "loop" /\ start[1] > last_source_block[1]) =>
              \A i \in next_target_block[1]..last_source_block[1] :
                  \E k \in 1..Len(windows) : i \in WindowRange(windows[k])

StrictlyIncreasing(seq) ==
    \A j, k \in 1..Len(seq) : j < k => seq[j] < seq[k]

NextStart(tbl) ==
    IF VerifiedIdx(tbl) = {} THEN 0 ELSE Greatest(VerifiedIdx(tbl))[1] + 1

\* C14: next_start is the target's maximum verified idx + 1, or 0 when the
\* target has no verified row.  A run ends 'source empty' without a write
\* exactly when the source has no verified row, ends 'fully synced' without
\* a write exactly when the source's maximum verified idx is below
\* next_start, and otherwise migrates from exactly next_start.
C14_ResumeDecision ==
    /\ pc # "idle" =>
          /\ VerifiedIdx(source) # {}
          /\ Greatest(VerifiedIdx(source))[1] >= NextStart(targetBefore)
          /\ next_target_block = <<NextStart(targetBefore)>>
          /\ last_source_block = Greatest(VerifiedIdx(source))
          /\ windows = <<>> => (start = <<NextStart(targetBefore)>> /\ target = targetBefore)
          /\ windows # <<>> => windows[1] = NextStart(targetBefore)
    /\ (RunEnded /\ SourceAsRead) =>
          /\ outcome = "empty" <=> VerifiedIdx(source) = {}
          /\ outcome = "synced" <=>
                /\ VerifiedIdx(source) # {}
                /\ Greatest(VerifiedIdx(source))[1] < NextStart(targetBefore)
          /\ outcome \in {"empty", "synced"} =>
                (windows = <<>> /\ Inserted = {} /\ target = targetBefore)
          /\ outcome \notin {"empty", "synced"} =>
                (windows # <<>> /\ windows[1] = NextStart(targetBefore))

\* A run migrates from a resume point above 0 that lies below the target's
\* maximum idx + 1.
C14_Witness ==
    /\ pc = "rows"
    /\ windows # <<>>
    /\ windows[1] > 0
    /\ windows[1] \in RowIdx(targetBefore)

\* C15 (as claimed): a run that follows an aborted run starts at the
\* target's last committed idx + 1 and reads no source row that an earlier
\* run has already read and written.
C15_RecoveryResumes ==
    (pc # "idle" /\ outcome \in AbortOutcomes /\ grown) =>
        /\ next_target_block =
              IF RowIdx(targetBefore) = {} THEN <<0>>
              ELSE <<Greatest(RowIdx(targetBefore))[1] + 1>>
        /\ \A k \in 1..Len(windows) :
              \A i \in RowIdx(source) \cap WindowRange(windows[k]) :
                  i \notin RowIdx(targetBefore)

\* C16 (as claimed): when a run aborted partway through a window after
\* inserting some of that window's rows, a rerun on the same source fails
\* with a duplicate-idx constraint violation.
C16_PartialWindowCollision ==
    (retry /\ pc = "idle") => outcome = "write_abort"

\* C16 (amended): when a run aborted partway through a window after
\* inserting some of that window's rows, a rerun on the same source attempts
\* no insert of an idx the target holds and inserts nothing: it either ends
\* 'fully synced', or resumes at the target's maximum idx + 1 and aborts
\* again on the record that does not decode.
C16_PartialWindowResume ==
    retry =>
        /\ Inserted = {}
        /\ target = targetBefore
        /\ pc = "loop" => windows = <<>>
        /\ pc = "idle" => outcome \in {"synced", "decode_abort"}
        /\ windows # <<>> =>
              windows = <<Greatest(RowIdx(targetBefore))[1] + 1>>
        /\ (windows # <<>> /\ SourceAsRead) => ~source[windows[1]].ok
        /\ pc = "rows" => (blocks # <<>> /\ Head(blocks) = windows[1])

\* The rerun resumed after the rows that the aborted run had inserted and
\* aborted again on the record that does not decode.
C16_Witness ==
    /\ retry /\ pc = "idle"
    /\ outcome = "decode_abort"
    /\ windows # <<>>
    /\ windows[1] - 1 \in RowIdx(target)

=============================================================================
